---- MODULE Spec2Model ----
(* A model of wranglegist.py: the Gist container and its validating      *)
(* setters, GitHubAuth, GistRequest, GistErrorHandler, the three          *)
(* heuristics and the create() entry point.                               *)
(*                                                                        *)
(* A Python str is a sequence of one-character strings; an exception is   *)
(* a record [type, text, arg] where text is the format string of the      *)
(* message and arg the value formatted into it.                           *)
EXTENDS Integers, Sequences, FiniteSets, TLC

VARIABLES pc, args, gist, tokenfile, auth, request, env, parm, content,
          response, handler, handled, dialogs, posts, printed, escaped, hin, hout

vars == <<pc, args, gist, tokenfile, auth, request, env, parm, content,
          response, handler, handled, dialogs, posts, printed, escaped, hin, hout>>

(* ---------------------------------------------------------------- *)
(* Bounds of the explored inputs                                     *)
(* ---------------------------------------------------------------- *)
MaxNamePieces == 3
MaxUpper == 1
MaxSnippetPieces == 3

(* ---------------------------------------------------------------- *)
(* str helpers                                                       *)
(* ---------------------------------------------------------------- *)
Whitespace == {" ", "\t", "\n"}
Digits == {"0", "1", "2", "3", "4", "5", "6", "7", "8", "9"}
LOWERCASE == <<"a","b","c","d","e","f","g","h","i","j","k","l","m",
               "n","o","p","q","r","s","t","u","v","w","x","y","z">>
UPPERCASE == <<"A","B","C","D","E","F","G","H","I","J","K","L","M",
               "N","O","P","Q","R","S","T","U","V","W","X","Y","Z">>

IndexIn(c, alphabet) ==
    IF \E i \in DOMAIN alphabet : alphabet[i] = c
    THEN CHOOSE i \in DOMAIN alphabet : alphabet[i] = c
    ELSE 0

char_lower(c) ==
    IF IndexIn(c, UPPERCASE) = 0 THEN c ELSE LOWERCASE[IndexIn(c, UPPERCASE)]

char_upper(c) ==
    IF IndexIn(c, LOWERCASE) = 0 THEN c ELSE UPPERCASE[IndexIn(c, LOWERCASE)]

str_lower(s) == [i \in DOMAIN s |-> char_lower(s[i])]

str_upper(s) == [i \in DOMAIN s |-> char_upper(s[i])]

str_startswith(s, prefix) ==
    /\ Len(s) >= Len(prefix)
    /\ SubSeq(s, 1, Len(prefix)) = prefix

(* s[1:] of Python, for a 1-based sequence *)
Rest(s) == SubSeq(s, 2, Len(s))

RECURSIVE str_rstrip_chars(_, _)
str_rstrip_chars(s, chars) ==
    IF s # <<>> /\ s[Len(s)] \in chars
    THEN str_rstrip_chars(SubSeq(s, 1, Len(s) - 1), chars)
    ELSE s

RECURSIVE str_lstrip_chars(_, _)
str_lstrip_chars(s, chars) ==
    IF s # <<>> /\ s[1] \in chars
    THEN str_lstrip_chars(Rest(s), chars)
    ELSE s

str_rstrip(s) == str_rstrip_chars(s, Whitespace)

str_lstrip(s) == str_lstrip_chars(s, Whitespace)

(* str.split() without arguments: the words between whitespace runs; *)
(* cur is the word being read, words those already finished.         *)
RECURSIVE split_scan(_, _, _)
split_scan(s, cur, words) ==
    IF s = <<>>
    THEN IF cur = <<>> THEN words ELSE Append(words, cur)
    ELSE IF s[1] \in Whitespace
         THEN split_scan(Rest(s), <<>>,
                         IF cur = <<>> THEN words ELSE Append(words, cur))
         ELSE split_scan(Rest(s), Append(cur, s[1]), words)

str_split(s) == split_scan(s, <<>>, <<>>)

(* sep.join(words) *)
RECURSIVE str_join(_, _)
str_join(sep, words) ==
    IF words = <<>> THEN <<>>
    ELSE IF Len(words) = 1 THEN words[1]
    ELSE words[1] \o sep \o str_join(sep, Rest(words))

str_replace_char(s, old, new) ==
    [i \in DOMAIN s |-> IF s[i] = old THEN new ELSE s[i]]

(* first index i >= from with s[i .. i+Len(t)-1] = t, or 0 *)
str_find(s, t, from) ==
    LET hits == {i \in from .. (Len(s) - Len(t) + 1) :
                    SubSeq(s, i, i + Len(t) - 1) = t}
    IN IF hits = {} THEN 0
       ELSE CHOOSE i \in hits : \A j \in hits : i <= j

(* concatenation of a tuple of strs *)
RECURSIVE Concat(_)
Concat(pieces) ==
    IF pieces = <<>> THEN <<>> ELSE pieces[1] \o Concat(Rest(pieces))

(* all tuples over S of length at most n *)
RECURSIVE TuplesUpTo(_, _)
TuplesUpTo(S, n) ==
    IF n = 0 THEN {<<>>}
    ELSE LET shorter == TuplesUpTo(S, n - 1)
         IN shorter \cup {Append(t, x) : t \in shorter, x \in S}

(* ---------------------------------------------------------------- *)
(* Module constants                                                  *)
(* ---------------------------------------------------------------- *)
VALID_EXTENSIONS ==
    << <<".", "h">>, <<".", "v", "f", "l">>, <<".", "c">>,
       <<".", "c", "l">>, <<".", "p", "y">> >>

VISIBILITY_TAGS ==
    << <<"p","r","i","v","a","t","e">>, <<"p","u","b","l","i","c">> >>

InTuple(x, tuple) == \E i \in DOMAIN tuple : tuple[i] = x

(* ---------------------------------------------------------------- *)
(* Exceptions                                                        *)
(* ---------------------------------------------------------------- *)
NoExc == [type |-> "none", text |-> "", arg |-> <<>>]

GistError(text, arg) == [type |-> "GistError", text |-> text, arg |-> arg]

OtherError(type, text) == [type |-> type, text |-> text, arg |-> <<>>]

(* ---------------------------------------------------------------- *)
(* class Gist                                                        *)
(* ---------------------------------------------------------------- *)
(* an instance before any attribute is assigned; attrs are the       *)
(* attributes that exist on it                                       *)
NewObject ==
    [attrs |-> {}, _ext |-> <<>>, _visibility |-> <<>>, _name |-> <<>>,
     _desc |-> <<>>, _snippet |-> <<>>, public |-> FALSE]

Returned(self) == [self |-> self, exc |-> NoExc]

Raised(self, exc) == [self |-> self, exc |-> exc]

(* re.match(r"gistfile\d+", name): the literal at the start of name, *)
(* then at least one digit                                           *)
GISTFILE == <<"g","i","s","t","f","i","l","e">>

re_match_illegal(name) ==
    /\ str_startswith(name, GISTFILE)
    /\ Len(name) > Len(GISTFILE)
    /\ name[Len(GISTFILE) + 1] \in Digits

(* a variant that rejects the bare prefix too: zero or more digits *)
Gist_filename_setter_star(self, name) ==
    IF name = <<>>
    THEN Raised(self, GistError("Filename cannot be an empty string!", <<>>))
    ELSE IF str_startswith(name, GISTFILE)
    THEN Raised(self, GistError("Gist files cannot contain {0}",
                    <<"g","i","s","t","f","i","l","e","\\","d","*">>))
    ELSE Returned([self EXCEPT
            !._name = str_join(<<"_">>, str_split(name)) \o self._ext,
            !.attrs = @ \cup {"_name"}])

Gist_filename_setter(self, name) ==
    IF name = <<>>
    THEN Raised(self, GistError("Filename cannot be an empty string!", <<>>))
    ELSE IF re_match_illegal(name)
    THEN Raised(self, GistError("Gist files cannot contain {0}",
                    <<"g","i","s","t","f","i","l","e","\\","d","+">>))
    ELSE Returned([self EXCEPT
            !._name = str_join(<<"_">>, str_split(name)) \o self._ext,
            !.attrs = @ \cup {"_name"}])

(* a variant that does not prepend the missing dot *)
Gist_ext_setter_nodot(self, ext) ==
    IF ~InTuple(ext, VALID_EXTENSIONS)
    THEN Raised(self, GistError(
            "Extension must be one of the following: {0}",
            str_join(<<" ">>, VALID_EXTENSIONS)))
    ELSE Returned([self EXCEPT !._ext = ext, !.attrs = @ \cup {"_ext"}])

Gist_ext_setter(self, ext) ==
    LET extension == IF str_startswith(ext, <<".">>) THEN ext
                     ELSE <<".">> \o ext
    IN IF ~InTuple(extension, VALID_EXTENSIONS)
       THEN Raised(self, GistError(
                "Extension must be one of the following: {0}",
                str_join(<<" ">>, VALID_EXTENSIONS)))
       ELSE Returned([self EXCEPT !._ext = extension,
                                  !.attrs = @ \cup {"_ext"}])

(* description[0] raises IndexError on the empty str, which the      *)
(* setter catches                                                    *)
Gist_desc_setter(self, description) ==
    IF description = <<>>
    THEN Returned([self EXCEPT !._desc = description,
                               !.attrs = @ \cup {"_desc"}])
    ELSE Returned([self EXCEPT
            !._desc = str_rstrip_chars(
                        <<char_upper(description[1])>> \o Rest(description),
                        {"."}),
            !.attrs = @ \cup {"_desc"}])

(* a variant that stores the snippet without its trailing whitespace *)
Gist_snippet_setter_strip(self, code) ==
    IF code = <<>>
    THEN Raised(self, GistError("Snippet cannot be empty!", <<>>))
    ELSE Returned([self EXCEPT !._snippet = str_rstrip(code),
                               !.attrs = @ \cup {"_snippet"}])

Gist_snippet_setter(self, code) ==
    IF code = <<>>
    THEN Raised(self, GistError("Snippet cannot be empty!", <<>>))
    ELSE Returned([self EXCEPT !._snippet = code,
                               !.attrs = @ \cup {"_snippet"}])

(* VISIBILITY_TAGS.index(viz) looks up viz itself, not viz.lower();  *)
(* tuple.index raises ValueError for a value that is not an element  *)
Gist_visibility_setter(self, viz) ==
    IF ~InTuple(str_lower(viz), VISIBILITY_TAGS)
    THEN Raised(self, [type |-> "ValueError",
                       text |-> "Invalid visibility selection. Options are {0} without the quotes).",
                       arg |-> str_join(<<" ">>,
                            [i \in DOMAIN VISIBILITY_TAGS |->
                                <<"\"">> \o VISIBILITY_TAGS[i] \o <<"\"">>])])
    ELSE IF ~InTuple(viz, VISIBILITY_TAGS)
    THEN Raised([self EXCEPT !._visibility = viz,
                             !.attrs = @ \cup {"_visibility"}],
                OtherError("ValueError", "tuple.index(x): x not in tuple"))
    ELSE Returned([self EXCEPT
            !._visibility = viz,
            !.public = (IndexIn(viz, VISIBILITY_TAGS) - 1 # 0),
            !.attrs = @ \cup {"_visibility", "public"}])

Gist_set_public(self, value) ==
    Returned([self EXCEPT !.public = value, !.attrs = @ \cup {"public"}])

(* the assignments of __init__ run in their order; the first one    *)
(* that raises ends the construction. A variant that assigns in the  *)
(* order of the parameters:                                          *)
Gist__init___documented_order(filename, ext, desc, snippet, visibility) ==
    LET s1 == Gist_ext_setter(NewObject, ext)
        s2 == IF s1.exc # NoExc THEN s1
              ELSE Gist_filename_setter(s1.self, filename)
        s3 == IF s2.exc # NoExc THEN s2
              ELSE Gist_desc_setter(s2.self, desc)
        s4 == IF s3.exc # NoExc THEN s3
              ELSE Gist_snippet_setter(s3.self, snippet)
        s5 == IF s4.exc # NoExc THEN s4
              ELSE Gist_visibility_setter(s4.self, visibility)
    IN IF s5.exc # NoExc THEN s5 ELSE Gist_set_public(s5.self, TRUE)

Gist__init__(filename, ext, desc, snippet, visibility) ==
    LET s1 == Gist_ext_setter(NewObject, ext)
        s2 == IF s1.exc # NoExc THEN s1
              ELSE Gist_visibility_setter(s1.self, visibility)
        s3 == IF s2.exc # NoExc THEN s2
              ELSE Gist_filename_setter(s2.self, filename)
        s4 == IF s3.exc # NoExc THEN s3
              ELSE Gist_desc_setter(s3.self, desc)
        s5 == IF s4.exc # NoExc THEN s4
              ELSE Gist_snippet_setter(s4.self, snippet)
    IN IF s5.exc # NoExc THEN s5 ELSE Gist_set_public(s5.self, TRUE)

(* ---------------------------------------------------------------- *)
(* class GitHubAuth                                                  *)
(* ---------------------------------------------------------------- *)
(* file_.readline(): the text up to and including the first newline  *)
readline(text) ==
    LET nl == str_find(text, <<"\n">>, 1)
    IN IF nl = 0 THEN text ELSE SubSeq(text, 1, nl)

(* file_.read() after the readline() *)
read_rest(text) == SubSeq(text, Len(readline(text)) + 1, Len(text))

NoAuth == [user |-> <<>>, token |-> <<>>, exc |-> NoExc]

GitHubAuth_auth(file) ==
    IF ~file.isfile
    THEN [NoAuth EXCEPT !.exc = GistError(
            "Unable to locate personal access token at ~/gist_personal_access_token. Are you sure you created one?",
            <<>>)]
    ELSE LET user == str_rstrip(readline(file.text))
             token == str_rstrip(read_rest(file.text))
         IN IF token = <<>>
            THEN [NoAuth EXCEPT !.exc = GistError(
                    "Token file is empty. Please make sure you copied and pasted the token string from GitHub!",
                    <<>>)]
            ELSE [user |-> user, token |-> token, exc |-> NoExc]

(* GitHubAuth(user, token); None is the empty str here, equally falsy *)
GitHubAuth__init__(user, token, file) ==
    IF user # <<>> /\ token # <<>>
    THEN [user |-> user, token |-> token, exc |-> NoExc]
    ELSE GitHubAuth_auth(file)

(* ---------------------------------------------------------------- *)
(* class GistRequest                                                 *)
(* ---------------------------------------------------------------- *)
NoRequest == [built |-> FALSE]

GistRequest_data(self_gist) ==
    [description |-> self_gist._desc,
     public |-> self_gist.public,
     files |-> [name \in {self_gist._name} |->
                    [content |-> self_gist._snippet]]]

GistRequest__init__(a, g) ==
    [built |-> TRUE,
     url |-> "https://api.github.com/gists",
     headers |-> [X_Github_Username |-> a.user,
                  Content_type |-> "application/json",
                  Authorization |-> <<"t","o","k","e","n"," ">> \o a.token],
     data |-> GistRequest_data(g)]

(* ---------------------------------------------------------------- *)
(* class GistErrorHandler                                            *)
(* ---------------------------------------------------------------- *)
(* e.hou: "import hou" succeeds; e.ui: hou.isUIAvailable()           *)
(* a variant that takes every session with the host module for a UI one *)
GistErrorHandler_get_context_noprobe(e) ==
    IF ~e.hou THEN "cli" ELSE "hou_ui"

GistErrorHandler_get_context(e) ==
    IF ~e.hou THEN "cli"
    ELSE IF e.ui THEN "hou_ui" ELSE "hou"

displayMessage(text, arg, title, severity) ==
    [text |-> text, arg |-> arg, title |-> title, severity |-> severity]

NoHandler == [err |-> NoExc, context |-> "none"]

GistErrorHandler_handle(self) ==
    IF self.context \in {"cli", "hou"}
    THEN [self |-> self, exc |-> self.err, shown |-> <<>>]
    ELSE IF self.context = "hou_ui"
    THEN [self |-> self, exc |-> NoExc,
          shown |-> <<displayMessage(self.err.text, self.err.arg,
                                     "Gist Submission Error", "Error")>>]
    ELSE [self |-> self, exc |-> NoExc, shown |-> <<>>]

(* __init__: the err setter, the context, then handle() *)
GistErrorHandler(err, e) ==
    IF err.type # "GistError"
    THEN [self |-> NoHandler,
          exc |-> OtherError("TypeError",
                             "Handler can only handle <GistError>s"),
          shown |-> <<>>]
    ELSE GistErrorHandler_handle(
            [err |-> err, context |-> GistErrorHandler_get_context(e)])

(* ---------------------------------------------------------------- *)
(* Heuristics                                                        *)
(* ---------------------------------------------------------------- *)
S_python == <<"p","y","t","h","o","n">>
S_vex == <<"v","e","x">>
S_opencl == <<"o","p","e","n","c","l">>
S_wrangle == <<"w","r","a","n","g","l","e">>
S_public == <<"p","u","b","l","i","c">>

Value(result) == [result |-> result, exc |-> NoExc]

Raises(type, text) == [result |-> <<>>, exc |-> OtherError(type, text)]

(* re.match(r"<typebase>\d*", name): \d* also matches no digit, so   *)
(* the match succeeds exactly when name starts with the type's base  *)
(* name (a name of letters, digits and underscores)                  *)
guess_filename(p) ==
    IF ~str_startswith(p.name, p.typebase) THEN Value(p.name)
    ELSE Value(<<>>)

exts ==
    << <<S_python, <<".","p","y">> >>, <<S_vex, <<".","h">> >>,
       <<S_opencl, <<".","c","l">> >> >>

HasKey(dict, key) == \E i \in DOMAIN dict : dict[i][1] = key

Lookup(dict, key) == dict[CHOOSE i \in DOMAIN dict : dict[i][1] = key][2]

type_map ==
    << <<S_wrangle, Lookup(exts, S_vex)>>,
       <<S_python, Lookup(exts, S_python)>>,
       <<S_opencl, Lookup(exts, S_opencl)>> >>

(* tags().get("editorlang"): the empty str stands for None as well;  *)
(* exts[...] raises KeyError for a language that is no key           *)
guess_filetype(p) ==
    IF p.editorlang # <<>>
    THEN IF HasKey(exts, str_lower(p.editorlang))
         THEN Value(Lookup(exts, str_lower(p.editorlang)))
         ELSE Raises("KeyError", "exts[editorlang.lower()]")
    ELSE LET hits == {i \in DOMAIN type_map :
                        str_find(p.typebase, type_map[i][1], 1) # 0}
         IN IF hits = {} THEN Value(<<>>)
            ELSE Value(type_map[CHOOSE i \in hits : \A j \in hits : i <= j][2])

singleline == << <<"/","/">>, <<"#">> >>

(* "/\*" is not a raw string, and \* is no escape: the backslash stays *)
multiline == << <<"/","\\","*">>, <<"'","'","'">>, <<"\"","\"","\"">> >>

Reverse(s) == [i \in DOMAIN s |-> s[Len(s) + 1 - i]]

(* the text a comment token matches when read as a regular           *)
(* expression: a backslash makes the next character literal          *)
RECURSIVE regex_literal(_)
regex_literal(token) ==
    IF token = <<>> THEN <<>>
    ELSE IF token[1] = "\\" /\ Len(token) > 1
         THEN <<token[2]>> \o regex_literal(SubSeq(token, 3, Len(token)))
         ELSE <<token[1]>> \o regex_literal(Rest(token))

auto_populate_desc(snippet) ==
    LET comment_tokens == singleline \o multiline
        starts == {i \in DOMAIN comment_tokens :
                    str_startswith(snippet, regex_literal(comment_tokens[i]))}
    IN IF starts = {} THEN Value(<<>>)
       ELSE
       LET token == regex_literal(
                comment_tokens[CHOOSE i \in starts : \A j \in starts : i <= j])
           after == Len(token) + 1
           desc ==
             IF InTuple(token, singleline)
             THEN (* .*? up to the first newline; no newline, no match,   *)
                  (* and the AttributeError is caught                      *)
                  LET nl == str_find(snippet, <<"\n">>, after)
                  IN IF nl = 0 THEN Value(<<>>)
                     ELSE Value(SubSeq(snippet, after, nl - 1))
             ELSE IF InTuple(token, multiline)
             THEN (* [\w\W]*? up to the first reversed token; no match     *)
                  (* leaves None, and None.group raises                    *)
                  LET close == str_find(snippet, Reverse(token), after)
                  IN IF close = 0
                     THEN Raises("AttributeError",
                            "'NoneType' object has no attribute 'group'")
                     ELSE Value(str_replace_char(
                            SubSeq(snippet, after, close - 1), "\n", " "))
             ELSE Value(<<>>)
       IN IF desc.exc # NoExc THEN desc
          ELSE Value(str_lstrip(str_rstrip(desc.result)))

(* ---------------------------------------------------------------- *)
(* Inputs                                                            *)
(* ---------------------------------------------------------------- *)
FilenamePieces == {GISTFILE, <<"1">>, <<"x">>, <<" ">>}

Filenames == {Concat(t) : t \in TuplesUpTo(FilenamePieces, MaxNamePieces)}

FilenameCore == {<<"x">>, <<>>, GISTFILE \o <<"1">>}

ExtInputs ==
    {VALID_EXTENSIONS[i] : i \in DOMAIN VALID_EXTENSIONS}
    \cup {Rest(VALID_EXTENSIONS[i]) : i \in DOMAIN VALID_EXTENSIONS}
    \cup {<<".">> \o VALID_EXTENSIONS[i] : i \in DOMAIN VALID_EXTENSIONS}
    \cup {<<>>, <<".">>, <<"P","Y">>, <<".","t","x","t">>, <<"t","x","t">>,
          <<"p","y",".">>}

ExtCore == {<<"p","y">>, <<".","t","x","t">>}

DescInputs ==
    {<<>>, <<"a"," ","b",".">>, <<"a",".",".">>, <<".">>, <<".","a",".">>,
     <<"A","b">>, <<"1","."," ">>}

DescCore == {<<>>, <<"a"," ","b",".">>}

SnippetInputs ==
    {<<>>, <<"c">>, <<" ">>, <<"c","\n","d","\n">>, <<"#","c","\n","d">>}

SnippetCore == {<<>>, <<"c">>}

(* word with the characters at the positions in up upper-cased *)
Cased(word, up) ==
    [i \in DOMAIN word |-> IF i \in up THEN char_upper(word[i]) ELSE word[i]]

CaseVariants(word, n) ==
    {Cased(word, up) : up \in {u \in SUBSET DOMAIN word : Cardinality(u) <= n}}

VisibilityInputs ==
    UNION {CaseVariants(VISIBILITY_TAGS[i], MaxUpper) \cup
           {str_upper(VISIBILITY_TAGS[i])} : i \in DOMAIN VISIBILITY_TAGS}
    \cup {<<>>, <<"p","u","b","l","i">>, <<"s","e","c","r","e","t">>,
          <<"p","u","b","l","i","c"," ">>}

VisibilityCore ==
    {VISIBILITY_TAGS[1], VISIBILITY_TAGS[2],
     <<"P","u","b","l","i","c">>, <<"s","e","c","r","e","t">>}

(* the arguments of Gist(...): every combination of the core values, *)
(* and every value of one field with core values of the others       *)
GistArgs ==
    [filename : Filenames, ext : ExtCore, desc : DescCore,
     snippet : SnippetCore, visibility : VisibilityCore]
    \cup [filename : FilenameCore, ext : ExtInputs, desc : DescCore,
          snippet : SnippetCore, visibility : VisibilityCore]
    \cup [filename : FilenameCore, ext : ExtCore, desc : DescInputs,
          snippet : SnippetCore, visibility : VisibilityCore]
    \cup [filename : FilenameCore, ext : ExtCore, desc : DescCore,
          snippet : SnippetInputs, visibility : VisibilityCore]
    \cup [filename : FilenameCore, ext : ExtCore, desc : DescCore,
          snippet : SnippetCore, visibility : VisibilityInputs]

NoArgs == [filename |-> <<>>, ext |-> <<>>, desc |-> <<>>,
           snippet |-> <<>>, visibility |-> <<>>]

Tokenfiles ==
    {[isfile |-> FALSE, text |-> <<>>]}
    \cup {[isfile |-> TRUE, text |-> t] :
            t \in {<<>>, <<"u","\n">>, <<"u","\n"," ","\n">>,
                   <<"u","\n","t","\n">>, <<"u"," ","\n","t">>, <<"u">>}}

Envs == {e \in [hou : BOOLEAN, ui : BOOLEAN] : e.ui => e.hou}

SnippetPieces ==
    {<<"/","/">>, <<"#">>, <<"/","*">>, <<"*","/">>, <<"'","'","'">>,
     <<"\"","\"","\"">>, <<"a">>, <<" ">>, <<"\n">>}

Snippets == {Concat(t) : t \in TuplesUpTo(SnippetPieces, MaxSnippetPieces)}

S_attribwrangle == <<"a","t","t","r","i","b">> \o S_wrangle

TypeBases == {S_attribwrangle, S_python, S_opencl, <<"n","u","l","l">>}

NodeNamesOf(typebase) ==
    {typebase, typebase \o <<"1">>, typebase \o <<"_","x">>, <<"x">>}

EditorLangs ==
    {<<>>, S_python, S_vex, S_opencl, <<"V","E","X">>,
     <<"h","s","c","r","i","p","t">>}

(* a parameter: its text, its node's name and type, its editorlang tag *)
Parms ==
    {[snippet |-> c, name |-> n, typebase |-> t, editorlang |-> l] :
        c \in {<<"c">>}, t \in TypeBases, l \in EditorLangs,
        n \in UNION {NodeNamesOf(b) : b \in TypeBases}}
    \cup
    {[snippet |-> c, name |-> <<"x">>, typebase |-> S_attribwrangle,
      editorlang |-> <<>>] : c \in Snippets}

CreateParms ==
    {[snippet |-> c, name |-> n, typebase |-> S_attribwrangle,
      editorlang |-> l] :
        c \in {<<>>, <<"c">>, <<"#","c","\n","d">>, <<"'","'","'","a">>},
        n \in {S_attribwrangle \o <<"1">>, <<"x">>},
        l \in {<<>>, S_vex, <<"h","s","c","r","i","p","t">>}}

(* what the user may leave in the four fields of the dialog *)
DialogFields ==
    {<<f, e, d, v>> : f \in FilenameCore, e \in ExtCore, d \in DescCore,
                      v \in VisibilityCore}

NoParm == [snippet |-> <<>>, name |-> <<>>, typebase |-> <<>>,
           editorlang |-> <<>>]

NoContent == [ok |-> FALSE, initial |-> <<>>, fields |-> <<>>]

NoHeur == [fn |-> "none", result |-> <<>>, exc |-> NoExc]

NoGist == Returned(NewObject)

(* ---------------------------------------------------------------- *)
(* Direct use of the classes, as the command line block and a test   *)
(* do: Gist(...), GitHubAuth(), GistRequest(auth, gist).data(), and  *)
(* GistErrorHandler(err) on what was raised                          *)
(* ---------------------------------------------------------------- *)
InitGist ==
    /\ pc = "start"
    /\ args \in GistArgs
    /\ env \in Envs
    /\ tokenfile \in {f \in Tokenfiles :
                        f.text \in {<<>>, <<"u","\n","t","\n">>}}
    /\ gist = NoGist
    /\ auth = NoAuth
    /\ request = NoRequest
    /\ parm = NoParm
    /\ content = NoContent
    /\ response = "unbound"
    /\ handler = NoHandler
    /\ handled = 0
    /\ dialogs = <<>>
    /\ posts = 0
    /\ printed = 0
    /\ escaped = NoExc
    /\ hin = NoParm
    /\ hout = NoHeur

NewGist ==
    /\ pc = "start"
    /\ gist' = Gist__init__(args.filename, args.ext, args.desc,
                            args.snippet, args.visibility)
    /\ escaped' = gist'.exc
    /\ pc' = IF gist'.exc = NoExc THEN "gist" ELSE "raised"
    /\ UNCHANGED <<args, tokenfile, auth, request, env, parm, content, response,
                   handler, handled, dialogs, posts, printed, hin, hout>>

NewGitHubAuth ==
    /\ pc = "gist"
    /\ auth' = GitHubAuth__init__(<<>>, <<>>, tokenfile)
    /\ escaped' = auth'.exc
    /\ pc' = IF auth'.exc = NoExc THEN "auth" ELSE "raised"
    /\ UNCHANGED <<args, gist, tokenfile, request, env, parm, content, response,
                   handler, handled, dialogs, posts, printed, hin, hout>>

NewGistRequest ==
    /\ pc = "auth"
    /\ request' = GistRequest__init__(auth, gist.self)
    /\ pc' = "request"
    /\ UNCHANGED <<args, gist, tokenfile, auth, env, parm, content, response,
                   handler, handled, dialogs, posts, printed, escaped, hin, hout>>

HandleError ==
    /\ pc = "raised"
    /\ LET h == GistErrorHandler(escaped, env)
       IN /\ handler' = h.self
          /\ handled' = handled + 1
          /\ dialogs' = dialogs \o h.shown
          /\ escaped' = h.exc
    /\ pc' = "handled"
    /\ UNCHANGED <<args, gist, tokenfile, auth, request, env, parm, content,
                   response, printed, posts, hin, hout>>

NextGist == NewGist \/ NewGitHubAuth \/ NewGistRequest \/ HandleError

Spec == InitGist /\ [][NextGist]_vars

(* ---------------------------------------------------------------- *)
(* The heuristics applied to a parameter                             *)
(* ---------------------------------------------------------------- *)
InitHeur ==
    /\ pc = "start"
    /\ hin \in Parms
    /\ hout = NoHeur
    /\ args = NoArgs
    /\ env = [hou |-> TRUE, ui |-> TRUE]
    /\ tokenfile = [isfile |-> FALSE, text |-> <<>>]
    /\ gist = NoGist
    /\ auth = NoAuth
    /\ request = NoRequest
    /\ parm = NoParm
    /\ content = NoContent
    /\ response = "unbound"
    /\ handler = NoHandler
    /\ handled = 0
    /\ dialogs = <<>>
    /\ posts = 0
    /\ printed = 0
    /\ escaped = NoExc

Applied(fn, r) == [fn |-> fn, result |-> r.result, exc |-> r.exc]

UnchangedByHeur ==
    UNCHANGED <<args, gist, tokenfile, auth, request, env, parm, content,
                response, handler, handled, dialogs, posts, printed,
                escaped, hin>>

Call_guess_filename ==
    /\ pc = "start"
    /\ hout' = Applied("guess_filename", guess_filename(hin))
    /\ pc' = "done"
    /\ UnchangedByHeur

Call_guess_filetype ==
    /\ pc = "start"
    /\ hout' = Applied("guess_filetype", guess_filetype(hin))
    /\ pc' = "done"
    /\ UnchangedByHeur

Call_auto_populate_desc ==
    /\ pc = "start"
    /\ hout' = Applied("auto_populate_desc", auto_populate_desc(hin.snippet))
    /\ pc' = "done"
    /\ UnchangedByHeur

NextHeur ==
    Call_guess_filename \/ Call_guess_filetype \/ Call_auto_populate_desc

SpecHeur == InitHeur /\ [][NextHeur]_vars

(* ---------------------------------------------------------------- *)
(* create(parm)                                                      *)
(* ---------------------------------------------------------------- *)
(* create() is the callback of a parameter's menu: it runs in a UI   *)
(* session, or, imported without the host module, with hou undefined *)
InitCreate ==
    /\ pc = "start"
    /\ parm \in CreateParms
    /\ env \in {e \in Envs : e.hou => e.ui}
    /\ tokenfile \in Tokenfiles
    /\ args = NoArgs
    /\ gist = NoGist
    /\ auth = NoAuth
    /\ request = NoRequest
    /\ content = NoContent
    /\ response = "unbound"
    /\ handler = NoHandler
    /\ handled = 0
    /\ dialogs = <<>>
    /\ posts = 0
    /\ printed = 0
    /\ escaped = NoExc
    /\ hin = NoParm
    /\ hout = NoHeur

(* list.insert(-1, x): x goes before the last element *)
insert_before_last(list, x) ==
    SubSeq(list, 1, Len(list) - 1) \o <<x>> \o <<list[Len(list)]>>

PushError ==
    GistError("Unable to push to GitHub. Please ensure your personal access token exists and is not expired, and that your username is typed correctly.",
              <<>>)

(* lines 453-474: the defaults, then the dialog and the user's answer; *)
(* without the host module the name hou is not defined                 *)
Create_Prompt ==
    /\ pc = "start"
    /\ LET f1 == guess_filename(parm)
           f2 == guess_filetype(parm)
           f3 == auto_populate_desc(parm.snippet)
       IN IF f2.exc # NoExc \/ f3.exc # NoExc
          THEN /\ escaped' = (IF f2.exc # NoExc THEN f2.exc ELSE f3.exc)
               /\ pc' = "done"
               /\ UNCHANGED content
          ELSE IF ~env.hou
          THEN /\ escaped' = OtherError("NameError",
                                        "name 'hou' is not defined")
               /\ pc' = "done"
               /\ UNCHANGED content
          ELSE \E ok \in BOOLEAN, fields \in DialogFields :
                /\ content' = [ok |-> ok,
                               initial |-> <<f1.result, f2.result,
                                             f3.result, S_public>>,
                               fields |-> fields]
                /\ pc' = IF ok THEN "build" ELSE "done"
                /\ UNCHANGED escaped
    /\ UNCHANGED <<args, gist, tokenfile, auth, request, env, parm, response,
                   handler, handled, dialogs, posts, printed, hin, hout>>

(* lines 475-485: the Gist, the credentials and the request; a        *)
(* GistError goes to the handler, anything else leaves create()       *)
Create_Build ==
    /\ pc = "build"
    /\ LET list == insert_before_last(content.fields, parm.snippet)
           g == Gist__init__(list[1], list[2], list[3], list[4], list[5])
           a == IF g.exc = NoExc
                THEN GitHubAuth__init__(<<>>, <<>>, tokenfile)
                ELSE NoAuth
           err == IF g.exc # NoExc THEN g.exc ELSE a.exc
           h == GistErrorHandler(err, env)
       IN /\ args' = [filename |-> list[1], ext |-> list[2],
                      desc |-> list[3], snippet |-> list[4],
                      visibility |-> list[5]]
          /\ gist' = g
          /\ auth' = a
          /\ IF err = NoExc
             THEN /\ request' = GistRequest__init__(a, g.self)
                  /\ pc' = "post"
                  /\ UNCHANGED <<handler, handled, dialogs, escaped>>
             ELSE IF err.type = "GistError"
             THEN /\ handler' = h.self
                  /\ handled' = handled + 1
                  /\ dialogs' = dialogs \o h.shown
                  /\ escaped' = h.exc
                  /\ pc' = "done"
                  /\ UNCHANGED request
             ELSE /\ escaped' = err
                  /\ pc' = "done"
                  /\ UNCHANGED <<request, handler, handled, dialogs>>
    /\ UNCHANGED <<tokenfile, env, parm, content, response, posts, printed,
                   hin, hout>>

(* lines 487-495: the POST; whatever it raises becomes the generic    *)
(* error given to the handler, and response stays unbound             *)
Create_Post ==
    /\ pc = "post"
    /\ posts' = posts + 1
    /\ \E outcome \in {"raises", "ok", "not_ok"} :
        IF outcome = "raises"
        THEN LET h == GistErrorHandler(PushError, env)
             IN /\ handler' = h.self
                /\ handled' = handled + 1
                /\ dialogs' = dialogs \o h.shown
                /\ escaped' = h.exc
                /\ pc' = IF h.exc # NoExc THEN "done" ELSE "report"
                /\ UNCHANGED response
        ELSE /\ response' = outcome
             /\ pc' = "report"
             /\ UNCHANGED <<handler, handled, dialogs, escaped>>
    /\ UNCHANGED <<args, gist, tokenfile, auth, request, env, parm, content,
                   printed, hin, hout>>

(* lines 496-515: response.ok of an unbound response raises           *)
(* UnboundLocalError                                                  *)
Create_Report ==
    /\ pc = "report"
    /\ pc' = "done"
    /\ IF response = "unbound"
       THEN /\ escaped' = OtherError("UnboundLocalError",
                "local variable 'response' referenced before assignment")
            /\ UNCHANGED <<dialogs, printed>>
       ELSE IF response = "ok"
       THEN /\ dialogs' = Append(dialogs,
                displayMessage("Created Gist. See link below.",
                               request.headers.X_Github_Username,
                               "Success!", "Message"))
            /\ UNCHANGED <<escaped, printed>>
       ELSE /\ printed' = printed + 1
            /\ dialogs' = Append(dialogs,
                displayMessage("Unable to create gist.", <<>>,
                               "Fail", "Error"))
            /\ UNCHANGED escaped
    /\ UNCHANGED <<args, gist, tokenfile, auth, request, env, parm, content,
                   response, handler, handled, posts, hin, hout>>

NextCreate == Create_Prompt \/ Create_Build \/ Create_Post \/ Create_Report

SpecCreate == InitCreate /\ [][NextCreate]_vars

(* ---------------------------------------------------------------- *)
(* What the statements below speak of                                *)
(* ---------------------------------------------------------------- *)
AllowList ==
    {<<".","h">>, <<".","v","f","l">>, <<".","c">>, <<".","c","l">>,
     <<".","p","y">>}

Dotted(ext) == IF ext # <<>> /\ ext[1] = "." THEN ext ELSE <<".">> \o ext

ExtValid(ext) == Dotted(ext) \in AllowList

SnippetValid(code) == Len(code) > 0

WordPublic == <<"p","u","b","l","i","c">>

WordPrivate == <<"p","r","i","v","a","t","e">>

(* the visibility strings the setter accepts as they are *)
VisibilityExact(viz) == viz \in {WordPublic, WordPrivate}

(* public or private in any mix of cases *)
VisibilityAnyCase(viz) == str_lower(viz) \in {WordPublic, WordPrivate}

(* gistfile followed by zero or more digits, and nothing else *)
ReservedWhole(name) ==
    /\ str_startswith(name, GISTFILE)
    /\ \A i \in (Len(GISTFILE) + 1) .. Len(name) : name[i] \in Digits

(* gistfile and at least one digit at the start of the name *)
ReservedStart(name) ==
    /\ Len(name) >= Len(GISTFILE) + 1
    /\ \A i \in 1 .. Len(GISTFILE) : name[i] = GISTFILE[i]
    /\ name[Len(GISTFILE) + 1] \in Digits

FilenameValid(name) == name # <<>> /\ ~ReservedStart(name)

(* s with each run of whitespace replaced by one underscore *)
RECURSIVE UnderscoreRuns(_, _)
UnderscoreRuns(s, inrun) ==
    IF s = <<>> THEN <<>>
    ELSE IF s[1] \in Whitespace
         THEN (IF inrun THEN <<>> ELSE <<"_">>) \o UnderscoreRuns(Rest(s), TRUE)
         ELSE <<s[1]>> \o UnderscoreRuns(Rest(s), FALSE)

Constructed == pc \in {"gist", "auth", "request"}

Attempted == pc # "start"

(* the field an error message is about *)
FieldOf(exc) ==
    CASE exc.text = "Extension must be one of the following: {0}" -> "ext"
      [] exc.text = "Filename cannot be an empty string!" -> "filename"
      [] exc.text = "Gist files cannot contain {0}" -> "filename"
      [] exc.text = "Snippet cannot be empty!" -> "snippet"
      [] exc.type = "ValueError" -> "visibility"
      [] OTHER -> "none"

FieldInvalid(a, field) ==
    CASE field = "ext" -> ~ExtValid(a.ext)
      [] field = "filename" -> ~FilenameValid(a.filename)
      [] field = "desc" -> FALSE
      [] field = "snippet" -> ~SnippetValid(a.snippet)
      [] field = "visibility" -> ~VisibilityExact(a.visibility)

(* the first field of order that is invalid in a, or "none" *)
FirstInvalid(a, order) ==
    LET bad == {i \in DOMAIN order : FieldInvalid(a, order[i])}
    IN IF bad = {} THEN "none"
       ELSE order[CHOOSE i \in bad : \A j \in bad : i <= j]

(* the error the handler was given *)
ErrGiven == IF gist.exc # NoExc THEN gist.exc ELSE auth.exc

(* ---------------------------------------------------------------- *)
(* C1                                                                *)
(* ---------------------------------------------------------------- *)
(* C1: for every Gist constructed successfully, public is true       *)
(* exactly when the visibility is "public" ignoring case, and        *)
(* GistRequest.data() sends that same value in its public field.     *)
C1_PublicFollowsVisibility ==
    /\ Constructed =>
        (gist.self.public <=> str_lower(args.visibility) = WordPublic)
    /\ pc = "request" =>
        (request.data.public <=> str_lower(args.visibility) = WordPublic)

(* ---------------------------------------------------------------- *)
(* C2                                                                *)
(* ---------------------------------------------------------------- *)
(* C2: with the other fields valid, construction succeeds for every  *)
(* case variant of public and private and fails for every other      *)
(* visibility string.                                                *)
C2_VisibilityCaseInsensitive ==
    (/\ Attempted
     /\ ExtValid(args.ext)
     /\ FilenameValid(args.filename) /\ ~ReservedWhole(args.filename)
     /\ SnippetValid(args.snippet))
    => (gist.exc = NoExc <=> VisibilityAnyCase(args.visibility))

(* ---------------------------------------------------------------- *)
(* C3                                                                *)
(* ---------------------------------------------------------------- *)
OthersValidForFilename ==
    /\ Attempted
    /\ ExtValid(args.ext)
    /\ SnippetValid(args.snippet)
    /\ VisibilityExact(args.visibility)

(* C3 as stated: construction fails for the empty filename and for   *)
(* every filename that is gistfile followed by zero or more digits,  *)
(* succeeds for every other one, and then stores the input with each *)
(* whitespace run replaced by one underscore, plus the extension.    *)
C3_ReservedZeroOrMoreDigits ==
    OthersValidForFilename =>
        /\ gist.exc # NoExc <=>
            (args.filename = <<>> \/ ReservedWhole(args.filename))
        /\ gist.exc = NoExc =>
            gist.self._name =
                UnderscoreRuns(args.filename, FALSE) \o Dotted(args.ext)

(* C3 amended: construction fails, with a GistError, for the empty   *)
(* filename and for every filename that starts with gistfile and at  *)
(* least one digit, and succeeds for every other one; it then stores *)
(* the input without its leading and trailing whitespace and with    *)
(* each remaining whitespace run replaced by one underscore, plus    *)
(* the dot-prefixed extension.                                       *)
C3_ReservedOneOrMoreDigits ==
    OthersValidForFilename =>
        /\ gist.exc # NoExc <=>
            (args.filename = <<>> \/ ReservedStart(args.filename))
        /\ gist.exc # NoExc => gist.exc.type = "GistError"
        /\ gist.exc = NoExc =>
            gist.self._name =
                UnderscoreRuns(str_lstrip(str_rstrip(args.filename)), FALSE)
                \o Dotted(args.ext)

C3_Witness ==
    /\ Constructed
    /\ ReservedWhole(args.filename)
    /\ gist.self._name = GISTFILE \o Dotted(args.ext)

(* ---------------------------------------------------------------- *)
(* C4                                                                *)
(* ---------------------------------------------------------------- *)
Occurs(t, s) == str_find(s, t, 1) # 0

(* C4: with the other fields valid, construction succeeds exactly    *)
(* when the extension, a leading dot prepended if it has none, is in *)
(* the allow-list; the stored extension is then that member, and     *)
(* otherwise a GistError listing the allow-list is raised.           *)
C4_ExtensionAllowList ==
    (/\ Attempted
     /\ FilenameValid(args.filename)
     /\ SnippetValid(args.snippet)
     /\ VisibilityExact(args.visibility))
    => /\ gist.exc = NoExc <=> ExtValid(args.ext)
       /\ gist.exc = NoExc =>
            /\ gist.self._ext = Dotted(args.ext)
            /\ gist.self._ext \in AllowList
       /\ gist.exc # NoExc =>
            /\ gist.exc.type = "GistError"
            /\ \A member \in AllowList : Occurs(member, gist.exc.arg)

C4_Witness ==
    /\ Constructed
    /\ args.ext = <<"p","y">>
    /\ gist.self._ext = <<".","p","y">>

(* ---------------------------------------------------------------- *)
(* C5                                                                *)
(* ---------------------------------------------------------------- *)
(* C5: the files mapping of data() has exactly one entry, keyed by   *)
(* the composed filename, whose content is the snippet body passed   *)
(* at construction, unchanged.                                       *)
C5_OneFileWithTheBody ==
    pc = "request" =>
        /\ Cardinality(DOMAIN request.data.files) = 1
        /\ DOMAIN request.data.files = {gist.self._name}
        /\ gist.self._name =
            UnderscoreRuns(str_lstrip(str_rstrip(args.filename)), FALSE)
            \o Dotted(args.ext)
        /\ \A name \in DOMAIN request.data.files :
            request.data.files[name].content = args.snippet

C5_Witness ==
    /\ pc = "request"
    /\ args.snippet = <<"c","\n","d","\n">>
    /\ request.data.files[<<"x",".","p","y">>].content = args.snippet

(* ---------------------------------------------------------------- *)
(* C8                                                                *)
(* ---------------------------------------------------------------- *)
(* C8: the handler detects cli without the host module, hou with it  *)
(* but without UI, hou_ui with both; given a GistError it re-raises  *)
(* it without a dialog in cli and hou, and in hou_ui shows exactly   *)
(* one error dialog with the error's message and returns normally.   *)
C8_HandlerByContext ==
    (pc = "handled" /\ ErrGiven.type = "GistError") =>
        /\ handler.err = ErrGiven
        /\ handler.context = "cli" <=> ~env.hou
        /\ handler.context = "hou" <=> (env.hou /\ ~env.ui)
        /\ handler.context = "hou_ui" <=> (env.hou /\ env.ui)
        /\ handler.context \in {"cli", "hou"} =>
            (escaped = ErrGiven /\ dialogs = <<>>)
        /\ handler.context = "hou_ui" =>
            /\ escaped = NoExc
            /\ Len(dialogs) = 1
            /\ dialogs[1].text = ErrGiven.text
            /\ dialogs[1].arg = ErrGiven.arg
            /\ dialogs[1].severity = "Error"

C8_Witness ==
    /\ pc = "handled"
    /\ ErrGiven.type = "GistError"
    /\ env.hou /\ env.ui
    /\ Len(dialogs) = 1
    /\ escaped = NoExc

(* ---------------------------------------------------------------- *)
(* C10                                                               *)
(* ---------------------------------------------------------------- *)
(* C10 as stated: the error raised is the one of the first invalid   *)
(* field in the order extension, filename, description, snippet      *)
(* body, visibility.                                                 *)
C10_VisibilityLast ==
    (Attempted /\ gist.exc # NoExc) =>
        FieldOf(gist.exc) =
            FirstInvalid(args, <<"ext", "filename", "desc", "snippet",
                                 "visibility">>)

(* C10 amended: the error raised is the one of the first invalid     *)
(* field in the order extension, visibility, filename, description,  *)
(* snippet body: an invalid visibility is reported before an empty   *)
(* filename or an empty snippet body.                                *)
C10_VisibilitySecond ==
    /\ (Attempted /\ gist.exc # NoExc) =>
        FieldOf(gist.exc) =
            FirstInvalid(args, <<"ext", "visibility", "filename", "desc",
                                 "snippet">>)
    /\ (Attempted /\ gist.exc = NoExc) =>
        \A f \in {"ext", "visibility", "filename", "snippet"} :
            ~FieldInvalid(args, f)

C10_Witness ==
    /\ pc = "raised"
    /\ args.filename = <<>>
    /\ args.snippet = <<>>
    /\ ~VisibilityExact(args.visibility)
    /\ ExtValid(args.ext)
    /\ FieldOf(gist.exc) = "visibility"

(* ---------------------------------------------------------------- *)
(* C6                                                                *)
(* ---------------------------------------------------------------- *)
BuildFailed ==
    /\ pc = "done"
    /\ content.ok
    /\ (gist.exc # NoExc \/ auth.exc # NoExc)

(* C6: in create(), after OK, every validation failure of any field  *)
(* and every credential-loading failure is handed to the handler     *)
(* exactly once, and no POST is attempted.                           *)
C6_BuildFailuresHandledOnce ==
    BuildFailed => (handled = 1 /\ posts = 0)

(* ---------------------------------------------------------------- *)
(* C7                                                                *)
(* ---------------------------------------------------------------- *)
PostRaised == posts = 1 /\ response = "unbound"

(* C7: in the interactive context, when the POST fails at transport  *)
(* level, exactly one error dialog with the generic message is shown *)
(* and the action ends normally: no exception leaves create() and no *)
(* success or failure dialog follows.                                *)
C7_PostFailureEndsNormally ==
    (pc = "done" /\ env.hou /\ env.ui /\ PostRaised) =>
        /\ escaped = NoExc
        /\ Len(dialogs) = 1
        /\ dialogs[1].text = PushError.text
        /\ dialogs[1].title = "Gist Submission Error"

(* ---------------------------------------------------------------- *)
(* C9                                                                *)
(* ---------------------------------------------------------------- *)
(* C9: the three heuristics return a string for every input and      *)
(* never raise.                                                      *)
C9_HeuristicsNeverRaise ==
    pc = "done" => hout.exc = NoExc

====
